---- MODULE Spec2Model ----
(***************************************************************************)
(* Issue tracker: the issues table and its insert/update validation        *)
(* schemas, and the HTTP handlers registered by registerRoutes.  Each      *)
(* handler is a process that advances from one await to the next, so that  *)
(* concurrent requests interleave exactly where the code yields.           *)
(***************************************************************************)
EXTENDS Integers, Sequences, FiniteSets, TLC

(* ------------------------------ bounds --------------------------------- *)

\* The uuids of the model: what gen_random_uuid() hands out and clients name.
Ids == {"id1", "id2"}

\* Number of requests the clients send in a run.
MaxRequests == 3

\* Request slots: the requests that can be in flight at the same time.
Procs == {1, 2}

\* Authenticated subjects (req.user.claims.sub).
Users == {"u1", "u2"}

(* --------------------------- JSON values ------------------------------- *)

\* A JSON value of a request body: a string, null, or (never from JSON) a Date.
Str(s) == [j |-> "str", s |-> s]
JNull == [j |-> "null", s |-> ""]

\* SQL NULL / JavaScript null in a stored row.
NULL == "<null>"
\* The value defaultNow() / new Date() yields; the model has no clock.
Now == "<now>"

ValueOf(v) == IF v.j = "null" THEN NULL ELSE v.s

LongStr == "critical-priority-blocker!"

\* Length of the strings that occur in request bodies.
StrLen(s) ==
  CASE s = "issue" -> 5
    [] s = "feature-request" -> 15
    [] s = "bogus" -> 5
    [] s = "Low" -> 3
    [] s = "Medium" -> 6
    [] s = "High" -> 4
    [] s = "Critical" -> 8
    [] s = "open" -> 4
    [] s = "assigned" -> 8
    [] s = "closed" -> 6
    [] s = "Crash on save" -> 13
    [] s = "It crashes" -> 10
    [] s = "evil" -> 4
    [] s = "2020-01-01" -> 10
    [] s = LongStr -> 26
    [] s \in Ids -> 3

(* ------------------------- the issues table ---------------------------- *)

Col(kind, notNull, hasDefault, length) ==
  [kind |-> kind, notNull |-> notNull, hasDefault |-> hasDefault, length |-> length]

\* pgTable("issues", {...}): length 0 stands for "no length given".
issues ==
  [ id              |-> Col("uuid",      TRUE,  TRUE,  0),
    title           |-> Col("text",      TRUE,  FALSE, 0),
    type            |-> Col("varchar",   TRUE,  FALSE, 50),
    description     |-> Col("text",      TRUE,  FALSE, 0),
    impact          |-> Col("varchar",   TRUE,  FALSE, 20),
    status          |-> Col("varchar",   TRUE,  FALSE, 20),
    expectedFixDate |-> Col("timestamp", FALSE, FALSE, 0),
    createdBy       |-> Col("varchar",   FALSE, FALSE, 0),
    updatedBy       |-> Col("varchar",   FALSE, FALSE, 0),
    createdAt       |-> Col("timestamp", FALSE, TRUE,  0),
    updatedAt       |-> Col("timestamp", FALSE, TRUE,  0) ]

RowKeys == DOMAIN issues

\* The values the comments on the type, impact and status columns list.
TypeEnum == {"issue", "feature-request"}
ImpactEnum == {"Low", "Medium", "High", "Critical"}
StatusEnum == {"open", "assigned", "closed"}

(* ------------------------- validation schemas -------------------------- *)

\* createInsertSchema: one field per column; a nullable column or one with a
\* default is optional, a nullable column also accepts null.
createInsertSchema(table) ==
  [k \in DOMAIN table |->
     [ kind     |-> table[k].kind,
       max      |-> table[k].length,
       optional |-> (~table[k].notNull) \/ table[k].hasDefault,
       nullable |-> ~table[k].notNull ]]

omit(schema, keys) == [k \in (DOMAIN schema) \ keys |-> schema[k]]

partial(schema) ==
  [k \in DOMAIN schema |-> [schema[k] EXCEPT !.optional = TRUE]]

InsertOmitted == {"id", "createdBy", "updatedBy", "createdAt", "updatedAt"}

insertIssueSchema == omit(createInsertSchema(issues), InsertOmitted)

\* Variant: createdBy left out of the .omit() list.
UpdateOmittedKeepingCreatedBy == {"createdAt", "updatedBy", "updatedAt"}

UpdateOmitted == {"createdBy", "createdAt", "updatedBy", "updatedAt"}

updateIssueSchema == partial(omit(createInsertSchema(issues), UpdateOmitted))

\* One zod field check: z.string() (with .max(n) for varchar(n)), .uuid() for a
\* uuid column, z.date() for a timestamp column, .nullable() where allowed.
FieldValid(f, v) ==
  \/ v.j = "null" /\ f.nullable
  \/ /\ v.j = "str"
     /\ f.kind \in {"text", "varchar"}
     /\ (f.max = 0 \/ StrLen(v.s) <= f.max)
  \/ v.j = "str" /\ f.kind = "uuid" /\ v.s \in Ids
  \/ v.j = "date" /\ f.kind = "timestamp"

\* schema.parse(body) does not throw a ZodError.
ParseOk(schema, body) ==
  \A k \in DOMAIN schema :
     IF k \in DOMAIN body THEN FieldValid(schema[k], body[k]) ELSE schema[k].optional

\* The value schema.parse(body) returns: keys the schema does not know are
\* stripped.
Parse(schema, body) ==
  [k \in (DOMAIN schema) \cap (DOMAIN body) |-> body[k]]

(* ------------------------------- state --------------------------------- *)

VARIABLES
  rows,     \* the rows of the issues table
  mirror,   \* ids that have a row in the spreadsheet mirror
  procs,    \* one record per request slot: the handler's position and locals
  res,      \* the response the latest step sent (pc = "done"), or Idle if none
  usedIds,  \* uuids gen_random_uuid() has produced or a client has introduced
  ledger,   \* history: per stored row, who created it and who last wrote it
  gone,     \* history: ids deleted after their creation completed, see DeleteDone
  nreq      \* history: number of requests received so far

vars == <<rows, mirror, procs, res, usedIds, ledger, gone, nreq>>

Undef == "<undefined>"
NoSession == [state |-> "missing", sub |-> Undef]
NoBody == [k \in {} |-> JNull]

\* A request slot with no request in it.  The fields after `syncOk` are history:
\*   seen       DELETE found the issue with getIssue
\*   ordered    at that moment no create/update sync for the id was pending and
\*              the mirror held the row
\*   disturbed  a PUT named the id while the DELETE was in flight
\*   called     DELETE went on to call syncIssueToSheets
\*   peer, peerCalled   status and `called` of a concurrent DELETE of the same id
\*   order      for a PUT awaiting its sync: "predel" once a DELETE of the same id
\*              has committed, "overtaken" once that DELETE's sync was applied
Idle ==
  [ kind |-> "none", pc |-> "idle", session |-> NoSession, id |-> Undef,
    body |-> NoBody, issue |-> {}, status |-> 0, items |-> {}, message |-> "",
    syncOk |-> TRUE, seen |-> FALSE, ordered |-> FALSE, disturbed |-> FALSE,
    called |-> FALSE, peer |-> 0, peerCalled |-> FALSE, order |-> "none" ]

\* The clients have a request left to send and p is the slot it takes: slots
\* are interchangeable, so a request takes the first free one.
Free(p) ==
  /\ nreq < MaxRequests
  /\ procs[p].pc = "idle"
  /\ \A q \in Procs : q < p => procs[q].pc # "idle"

TheIssue(r) == CHOOSE i \in r.issue : TRUE

RowIds == {r.id : r \in rows}

(* --------------------------- Record Store ------------------------------ *)

getIssue(id) == {r \in rows : r.id = id}

\* Case-insensitive substring test, tabulated for the texts of the model.
Contains(text, needle) ==
  <<text, needle>> \in {<<"Crash on save", "crash">>, <<"It crashes", "crash">>}

getAllIssues(filters) ==
  {r \in rows :
     /\ filters.status = Undef \/ r.status = filters.status
     /\ filters.type = Undef \/ r.type = filters.type
     /\ \/ filters.search = Undef
        \/ Contains(r.title, filters.search)
        \/ Contains(r.description, filters.search)}

createIssue(data, userId, newId) ==
  [k \in RowKeys |->
     CASE k = "id" -> newId
       [] k \in {"createdBy", "updatedBy"} -> userId
       [] k \in {"createdAt", "updatedAt"} -> Now
       [] k = "status" -> IF k \in DOMAIN data THEN ValueOf(data[k]) ELSE "open"
       [] OTHER -> IF k \in DOMAIN data THEN ValueOf(data[k]) ELSE NULL]

updateIssue(row, data, userId) ==
  [k \in RowKeys |->
     CASE k = "updatedBy" -> userId
       [] k = "updatedAt" -> Now
       [] OTHER -> IF k \in DOMAIN data THEN ValueOf(data[k]) ELSE row[k]]

(* ----------------------------- Auth Gate ------------------------------- *)

isAuthenticated(session) == session.state = "valid"

Sessions ==
  {[state |-> "valid", sub |-> u] : u \in Users}
    \cup {[state |-> s, sub |-> Undef] : s \in {"missing", "expired", "invalid"}}

(* ---------------------------- Mirror Sync ------------------------------ *)

syncIssueToSheets(m, issue, operation) ==
  IF operation = "delete" THEN m \ {issue.id} ELSE m \cup {issue.id}

(* ----------------------------- API Layer ------------------------------- *)

\* Variant: the DELETE route registered without the middleware.
RouteAuthDeleteOpen ==
  [getIssues |-> FALSE, getIssue |-> FALSE, post |-> TRUE, put |-> TRUE, delete |-> FALSE]

\* Which routes registerRoutes guards with the isAuthenticated middleware.
RouteAuth ==
  [getIssues |-> FALSE, getIssue |-> FALSE, post |-> TRUE, put |-> TRUE, delete |-> TRUE]

\* The request passes the middleware in front of the handler.
Admitted(route, session) == (~RouteAuth[route]) \/ isAuthenticated(session)

PublicKeys ==
  {"id", "title", "type", "description", "impact", "status", "expectedFixDate",
   "createdAt", "updatedAt"}

\* Variant: the literal also copies createdBy.
PublicIssueLeaky(issue) == [k \in PublicKeys \cup {"createdBy"} |-> issue[k]]

\* The object literal both public GET handlers build from a stored issue.
PublicIssue(issue) == [k \in PublicKeys |-> issue[k]]

\* Variant: the DELETE handler passes 'update'.
SyncOpDeleteAsUpdate(kind) ==
  CASE kind = "post" -> "create" [] kind = "put" -> "update" [] kind = "delete" -> "update"

\* The operation each handler passes to syncIssueToSheets.
SyncOp(kind) ==
  CASE kind = "post" -> "create" [] kind = "put" -> "update" [] kind = "delete" -> "delete"

SuccessStatus(kind) ==
  CASE kind = "post" -> 201 [] kind = "put" -> 200 [] kind = "delete" -> 204

\* Variant: a failed sync turned into the 500 of the catch block.
RespondAfterSyncStrict(kind, ok) == IF ok THEN SuccessStatus(kind) ELSE 500

\* The status a mutating handler sends once `await syncIssueToSheets(...)`
\* has returned; the handler never looks at how the sync went.
RespondAfterSync(kind, ok) == SuccessStatus(kind)

\* Variant: the result of deleteIssue is not looked at.
AfterDeleteIgnoringResult(deleted) == "sync"

\* DELETE after `await storage.deleteIssue(id)`: 404 when nothing was deleted.
AfterDelete(deleted) == IF ~deleted THEN "notfound" ELSE "sync"

(* --------------------------- request inputs ---------------------------- *)

ValidBody ==
  [ title |-> Str("Crash on save"), type |-> Str("issue"),
    description |-> Str("It crashes"), impact |-> Str("High"),
    status |-> Str("open") ]

\* The creation payload of the example scenario: no status.
NoStatusBody ==
  [ title |-> Str("Crash on save"), type |-> Str("issue"),
    description |-> Str("It crashes"), impact |-> Str("High") ]

BadTypeBody == [ValidBody EXCEPT !.type = Str("bogus")]

TooLongBody == [ValidBody EXCEPT !.impact = Str(LongStr)]

\* A valid payload that also carries the server-owned fields.
ForgedPostBody ==
  [ title |-> Str("Crash on save"), type |-> Str("issue"),
    description |-> Str("It crashes"), impact |-> Str("High"),
    status |-> Str("open"), id |-> Str("id1"),
    createdBy |-> Str("evil"), updatedBy |-> Str("evil"),
    createdAt |-> Str("2020-01-01"), updatedAt |-> Str("2020-01-01") ]

PostBodies == {ValidBody, NoStatusBody, BadTypeBody, TooLongBody, ForgedPostBody}

CloseBody == [status |-> Str("closed")]

BadTypeUpdate == [type |-> Str("bogus")]

TooLongUpdate == [status |-> Str(LongStr)]

ForgedPutBody ==
  [ status |-> Str("closed"), createdBy |-> Str("evil"), updatedBy |-> Str("evil"),
    createdAt |-> Str("2020-01-01"), updatedAt |-> Str("2020-01-01") ]

RenameBody(x) == [id |-> Str(x)]

PutBodies ==
  {CloseBody, BadTypeUpdate, TooLongUpdate, ForgedPutBody}
    \cup {RenameBody(x) : x \in Ids}

NoFilter == [status |-> Undef, type |-> Undef, search |-> Undef]

Filters ==
  { NoFilter,
    [status |-> "open", type |-> "issue", search |-> Undef],
    [status |-> Undef, type |-> Undef, search |-> "crash"] }

(* ------------------------------ handlers ------------------------------- *)

Request(kind, session, id, body) ==
  [Idle EXCEPT !.kind = kind, !.session = session, !.id = id, !.body = body]

Reply(r, status, items, message) ==
  [r EXCEPT !.pc = "done", !.status = status, !.items = items, !.message = message]

\* What a slot's history fields record when another request responds.
Notify(r, reply) ==
  IF /\ reply.kind = "delete" /\ reply.status # 401
     /\ r.kind = "delete" /\ r.id = reply.id /\ r.peer = 0
  THEN [r EXCEPT !.peer = reply.status, !.peerCalled = reply.called]
  ELSE IF /\ reply.kind = "delete" /\ reply.status = 204 /\ reply.syncOk
          /\ r.kind = "put" /\ r.order = "predel" /\ TheIssue(r).id = reply.id
  THEN [r EXCEPT !.order = "overtaken"]
  ELSE r

\* Slot p sends `reply` and is free again.
Respond(p, reply) ==
  /\ res' = reply
  /\ procs' = [q \in Procs |-> IF q = p THEN Idle ELSE Notify(procs[q], reply)]

\* Slot p goes on to its next await with locals r.
Await(p, r) ==
  /\ res' = Idle
  /\ procs' = [procs EXCEPT ![p] = r]

\* The middleware's answer; the handler, and so params and body, is never reached.
Unauthorized(kind, session) ==
  Reply(Request(kind, session, Undef, NoBody), 401, {}, "Unauthorized")

GetIssueStatus(id) == IF getIssue(id) = {} THEN 404 ELSE 200

\* GET /api/issues
GetIssues(p, filters) ==
  /\ Free(p)
  /\ nreq' = nreq + 1
  /\ Respond(p, Reply(Request("getIssues", NoSession, Undef, NoBody), 200,
                      {PublicIssue(r) : r \in getAllIssues(filters)}, ""))
  /\ UNCHANGED <<rows, mirror, usedIds, ledger, gone>>

\* GET /api/issues/:id
GetIssueById(p, id) ==
  /\ Free(p)
  /\ nreq' = nreq + 1
  /\ LET req == Request("getIssue", NoSession, id, NoBody) IN
     Respond(p, IF GetIssueStatus(id) = 404
                  THEN Reply(req, 404, {}, "Issue not found")
                  ELSE Reply(req, 200, {PublicIssue(r) : r \in getIssue(id)}, ""))
  /\ UNCHANGED <<rows, mirror, usedIds, ledger, gone>>

\* POST /api/issues, up to and including `await storage.createIssue(...)`.
PostIssue(p, session, body) ==
  /\ Free(p)
  /\ nreq' = nreq + 1
  /\ LET req == Request("post", session, Undef, body) IN
     IF ~Admitted("post", session) THEN
       /\ Respond(p, Unauthorized("post", session))
       /\ UNCHANGED <<rows, mirror, usedIds, ledger, gone>>
     ELSE IF ~isAuthenticated(session) THEN
       \* req.user is undefined: reading req.user.claims throws
       /\ Respond(p, Reply(req, 500, {}, "Failed to create issue"))
       /\ UNCHANGED <<rows, mirror, usedIds, ledger, gone>>
     ELSE IF ~ParseOk(insertIssueSchema, body) THEN
       /\ Respond(p, Reply(req, 400, {}, "Validation error"))
       /\ UNCHANGED <<rows, mirror, usedIds, ledger, gone>>
     ELSE
       \E newId \in Ids \ usedIds :
         LET issue == createIssue(Parse(insertIssueSchema, body), session.sub, newId) IN
         /\ rows' = rows \cup {issue}
         /\ usedIds' = usedIds \cup {newId}
         /\ ledger' = ledger \cup
                        {[id |-> newId, creator |-> session.sub, last |-> session.sub]}
         /\ Await(p, [req EXCEPT !.pc = "sync", !.issue = {issue}])
         /\ UNCHANGED <<mirror, gone>>

\* PUT /api/issues/:id, up to and including `await storage.updateIssue(...)`.
PutIssue(p, session, id, body) ==
  /\ Free(p)
  /\ nreq' = nreq + 1
  /\ LET req == Request("put", session, id, body) IN
     IF ~Admitted("put", session) THEN
       /\ Respond(p, Unauthorized("put", session))
       /\ UNCHANGED <<rows, mirror, usedIds, ledger, gone>>
     ELSE IF ~isAuthenticated(session) THEN
       /\ Respond(p, Reply(req, 500, {}, "Failed to update issue"))
       /\ UNCHANGED <<rows, mirror, usedIds, ledger, gone>>
     ELSE IF ~ParseOk(updateIssueSchema, body) THEN
       /\ Respond(p, Reply(req, 400, {}, "Validation error"))
       /\ UNCHANGED <<rows, mirror, usedIds, ledger, gone>>
     ELSE IF getIssue(id) = {} THEN
       /\ Respond(p, Reply(req, 404, {}, "Issue not found"))
       /\ UNCHANGED <<rows, mirror, usedIds, ledger, gone>>
     ELSE
       LET old == CHOOSE r \in getIssue(id) : TRUE
           issue == updateIssue(old, Parse(updateIssueSchema, body), session.sub)
           named == {id, issue.id}
       IN
       IF issue.id # id /\ getIssue(issue.id) # {} THEN
         \* the primary key rejects the row: the store throws
         /\ Respond(p, Reply(req, 500, {}, "Failed to update issue"))
         /\ UNCHANGED <<rows, mirror, usedIds, ledger, gone>>
       ELSE
         /\ rows' = (rows \ {old}) \cup {issue}
         /\ usedIds' = usedIds \cup {issue.id}
         /\ ledger' = {IF l.id = id
                         THEN [id |-> issue.id, creator |-> l.creator, last |-> session.sub]
                         ELSE l : l \in ledger}
         /\ gone' = gone \ named
         /\ res' = Idle
         /\ procs' = [q \in Procs |->
              IF q = p THEN [req EXCEPT !.pc = "sync", !.issue = {issue}]
              ELSE IF procs[q].kind = "delete" /\ procs[q].id \in named
                THEN [procs[q] EXCEPT !.disturbed = TRUE]
              ELSE procs[q]]
         /\ UNCHANGED mirror

\* A create or update sync for id has been started and not yet completed.
SyncPending(id) ==
  \E q \in Procs : /\ procs[q].kind \in {"post", "put"}
                   /\ procs[q].pc = "sync"
                   /\ TheIssue(procs[q]).id = id

\* DELETE /api/issues/:id, up to and including `await storage.getIssue(id)`.
DeleteGet(p, session, id) ==
  /\ Free(p)
  /\ nreq' = nreq + 1
  /\ LET req == Request("delete", session, id, NoBody) IN
     IF ~Admitted("delete", session) THEN
       Respond(p, Unauthorized("delete", session))
     ELSE IF GetIssueStatus(id) = 404 THEN
       Respond(p, Reply(req, 404, {}, "Issue not found"))
     ELSE
       Await(p, [req EXCEPT !.pc = "delete", !.issue = getIssue(id), !.seen = TRUE,
                            !.ordered = (id \in mirror) /\ ~SyncPending(id)])
  /\ UNCHANGED <<rows, mirror, usedIds, ledger, gone>>

\* DELETE, `await storage.deleteIssue(id)` and the call of syncIssueToSheets.
DeleteCommit(p) ==
  /\ procs[p].pc = "delete"
  /\ LET id == procs[p].id
         deleted == getIssue(id) # {}
     IN
     /\ rows' = rows \ getIssue(id)
     /\ ledger' = {l \in ledger : l.id # id}
     /\ IF AfterDelete(deleted) = "notfound" THEN
          Respond(p, Reply(procs[p], 404, {}, "Issue not found"))
        ELSE
          /\ res' = Idle
          /\ procs' = [q \in Procs |->
               IF q = p THEN [procs[p] EXCEPT !.pc = "sync", !.called = TRUE]
               ELSE IF /\ procs[q].kind = "put" /\ procs[q].pc = "sync"
                       /\ TheIssue(procs[q]).id = id
                 THEN [procs[q] EXCEPT !.order = "predel"]
               ELSE procs[q]]
  /\ UNCHANGED <<mirror, usedIds, gone, nreq>>

\* The DELETE of res followed the completed creation of its id and removed it
\* from store and mirror, with no PUT naming the id meanwhile.
DeleteDone(r) ==
  /\ r.kind = "delete" /\ r.status = 204 /\ r.syncOk
  /\ r.ordered /\ ~r.disturbed

\* `await googleSheetsService.syncIssueToSheets(issue, op)` completes, applied to
\* the mirror (ok) or failed inside the service, and the handler responds.
Sync(p, ok) ==
  /\ procs[p].pc = "sync"
  /\ LET kind == procs[p].kind
         issue == TheIssue(procs[p])
         status == RespondAfterSync(kind, ok)
         reply == [Reply(procs[p], status,
                         IF kind = "delete" \/ status = 500 THEN {} ELSE {issue},
                         IF status = 500 THEN "Failed" ELSE "")
                     EXCEPT !.syncOk = ok]
     IN
     /\ mirror' = IF ok THEN syncIssueToSheets(mirror, issue, SyncOp(kind)) ELSE mirror
     /\ Respond(p, reply)
     /\ gone' = IF DeleteDone(reply) THEN gone \cup {issue.id} ELSE gone
  /\ UNCHANGED <<rows, usedIds, ledger, nreq>>

(* --------------------------- specification ----------------------------- *)

Init ==
  /\ rows = {}
  /\ mirror = {}
  /\ procs = [p \in Procs |-> Idle]
  /\ res = Idle
  /\ usedIds = {}
  /\ ledger = {}
  /\ gone = {}
  /\ nreq = 0

Next ==
  \/ \E p \in Procs, f \in Filters : GetIssues(p, f)
  \/ \E p \in Procs, id \in Ids : GetIssueById(p, id)
  \/ \E p \in Procs, s \in Sessions, b \in PostBodies : PostIssue(p, s, b)
  \/ \E p \in Procs, s \in Sessions, id \in Ids, b \in PutBodies : PutIssue(p, s, id, b)
  \/ \E p \in Procs, s \in Sessions, id \in Ids : DeleteGet(p, s, id)
  \/ \E p \in Procs : DeleteCommit(p)
  \/ \E p \in Procs, ok \in BOOLEAN : Sync(p, ok)

Spec == Init /\ [][Next]_vars

(* ------------------------------ properties ----------------------------- *)

Mutating == {"post", "put", "delete"}

Sent == res.pc = "done"

\* C1: the body of every response of GET /issues (each element) and of
\* GET /issues/{id} has neither a createdBy nor an updatedBy field.
C1_PublicRedacted ==
  (Sent /\ res.kind \in {"getIssues", "getIssue"}) =>
     \A e \in res.items : {"createdBy", "updatedBy"} \cap DOMAIN e = {}

C1_Witness ==
  /\ Sent /\ res.kind = "getIssues" /\ res.items # {}
  /\ \E r \in rows : r.createdBy \in Users

\* C2: a POST, PUT or DELETE whose session is missing, expired or invalid is
\* answered 401 by the step that receives it, which changes neither the store
\* nor the mirror, and no handler is ever in flight for such a request.
C2_AuthGate ==
  [][ /\ (res'.pc = "done" /\ res'.kind \in Mutating /\ res'.session.state # "valid")
           => (res'.status = 401 /\ rows' = rows /\ mirror' = mirror)
      /\ \A p \in Procs :
           procs'[p].kind \in Mutating => procs'[p].session.state = "valid" ]_vars

C2_Witness ==
  /\ Sent /\ res.kind = "delete" /\ res.session.state = "expired" /\ res.status = 401
  /\ rows # {} /\ mirror # {}

\* C3: when the Mirror Sync call of a POST, PUT or DELETE fails after the store
\* mutation committed, the client still gets 201, 200 or 204 and the step
\* leaves the store as committed.
C3_SyncFailureSwallowed ==
  [][ (res'.pc = "done" /\ res'.kind \in Mutating /\ ~res'.syncOk) =>
        /\ res'.status = (CASE res'.kind = "post" -> 201
                            [] res'.kind = "put" -> 200
                            [] res'.kind = "delete" -> 204)
        /\ rows' = rows ]_vars

C3_Witness ==
  /\ Sent /\ res.kind = "post" /\ ~res.syncOk /\ res.status = 201
  /\ res.issue \subseteq rows

\* C4: an update sync is never applied to the mirror after the delete sync of
\* the same id when the update was committed before the delete.
C4_SyncOrderKept ==
  (Sent /\ res.kind = "put" /\ res.syncOk) => res.order # "overtaken"

\* The payload has valid title, type, description and impact and no status.
OmitsOnlyStatus(body) ==
  /\ DOMAIN body = {"title", "type", "description", "impact"}
  /\ body.type.s \in TypeEnum
  /\ body.impact.s \in ImpactEnum

\* C5: an authenticated POST whose body is valid but omits status is answered
\* 201 with a record whose status is "open".
C5_StatusDefaultsToOpen ==
  (Sent /\ res.kind = "post" /\ res.session.state = "valid" /\ OmitsOnlyStatus(res.body))
    => /\ res.status = 201
       /\ \E i \in res.items : i.status = "open"

\* C6: every stored issue's createdBy is the subject of the POST that created
\* it and its updatedBy the subject of the latest POST or PUT on it, whatever
\* the bodies carried.
C6_ActorsServerSet ==
  \A r \in rows :
     /\ r.createdBy \in Users /\ r.updatedBy \in Users
     /\ \E l \in ledger :
          l.id = r.id /\ r.createdBy = l.creator /\ r.updatedBy = l.last

C6_Witness ==
  \E p \in Procs :
     /\ procs[p].kind = "put" /\ procs[p].pc = "sync"
     /\ "createdBy" \in DOMAIN procs[p].body
     /\ procs[p].issue \subseteq rows
     /\ TheIssue(procs[p]).createdBy # procs[p].session.sub
     /\ TheIssue(procs[p]).updatedBy = procs[p].session.sub

\* C7: the set of stored ids changes only by a POST adding one fresh id or a
\* DELETE removing one id; no PUT changes it.
C7_IdImmutable ==
  [][ \/ RowIds' = RowIds
      \/ \E p \in Procs, id \in Ids \ usedIds :
           /\ procs[p].pc = "idle" /\ procs'[p].kind = "post"
           /\ RowIds' = RowIds \cup {id}
      \/ \E p \in Procs, id \in RowIds :
           /\ procs[p].kind = "delete" /\ procs[p].pc = "delete"
           /\ RowIds' = RowIds \ {id} ]_vars

\* Some enumerated field of the payload has a value outside its set.
OutOfEnum(body) ==
  \/ "type" \in DOMAIN body /\ body.type.s \notin TypeEnum
  \/ "impact" \in DOMAIN body /\ body.impact.s \notin ImpactEnum
  \/ "status" \in DOMAIN body /\ body.status.s \notin StatusEnum

\* C8: an authenticated POST or PUT with an out-of-enum type, impact or status
\* is answered 400, and every stored issue has the three fields in their sets.
C8_EnumsEnforced ==
  /\ (Sent /\ res.kind \in {"post", "put"} /\ res.session.state = "valid"
        /\ OutOfEnum(res.body)) => res.status = 400
  /\ \A r \in rows :
       r.type \in TypeEnum /\ r.impact \in ImpactEnum /\ r.status \in StatusEnum

\* C9: once an id created by a completed POST was deleted by a DELETE that
\* followed it (both syncs applied, no PUT naming the id), the mirror has no
\* row for the id and GET /issues/{id} answers 404.
C9_CreateThenDelete ==
  \A id \in gone : id \notin mirror /\ GetIssueStatus(id) = 404

C9_Witness ==
  /\ Sent /\ DeleteDone(res) /\ res.id \in gone
  /\ rows # {}

\* C10: of concurrent DELETEs of the same existing id, with no PUT naming the
\* id, exactly one is answered 204 and the other 404, and exactly one of them
\* called the Mirror Sync delete.
C10_OneDeleteWins ==
  (Sent /\ res.kind = "delete" /\ res.seen /\ res.peer # 0 /\ ~res.disturbed) =>
     /\ {res.status, res.peer} = {204, 404}
     /\ res.called # res.peerCalled

C10_Witness ==
  /\ Sent /\ res.kind = "delete" /\ res.seen /\ ~res.disturbed
  /\ res.status = 404 /\ res.peer = 204 /\ res.peerCalled /\ ~res.called

====
